---- MODULE Spec2Model ----
(***************************************************************************)
(* The Segment Index box ("sidx") of src/src/mp4box/sidx.rs: the box       *)
(* model, its binary codec (read_box / write_box) and the segment geometry *)
(* derived from a box (sidx_to_seek_segments, parse_dash_sidx,             *)
(* find_segment_for_time).                                                 *)
(*                                                                         *)
(* Fixed-width unsigned integers (u16, u32, u64) are big-endian sequences  *)
(* of bytes, most significant byte first, exactly as they travel on the    *)
(* wire; TLC's own integers are narrower than u32, so every shift, mask,   *)
(* OR, narrowing cast and 64-bit addition is computed on the bytes.        *)
(***************************************************************************)
EXTENDS Integers, Sequences, FiniteSets, TLC

VARIABLES
    origin,   \* "value": the caller built a SidxBox; "bytes": the caller holds a payload
    pc,       \* the position of the caller
    sidx,     \* the SidxBox built by the caller (NoBox when origin = "bytes")
    input,    \* the payload handed to read_box (None before the call)
    result,   \* what read_box returned (None before the call)
    output,   \* the writes write_box made to the writer (None before the call)
    ret,      \* what write_box returned (None before the call)
    args,     \* the (sidx_box_offset, sidx_box_size) handed to the geometry functions
    seek,     \* what sidx_to_seek_segments returned
    dash,     \* what parse_dash_sidx returned
    time,     \* the time_seconds handed to find_segment_for_time
    found     \* what find_segment_for_time returned

vars == <<origin, pc, sidx, input, result, output, ret, args, seek, dash, time, found>>

None == "none"
NoBox == "nobox"

(***************************************************************************)
(* Bounds of the exploration.                                              *)
(***************************************************************************)
\* the longest reference list of a box built by the caller or carried by an
\* input payload (the count-overflow box of InitOverflow apart)
MaxRefs == 2

(***************************************************************************)
(* Fixed-width integers.                                                   *)
(***************************************************************************)
RECURSIVE NatToBytes(_, _)
\* the w low-order bytes of n, big-endian (byteorder's write_uN::<BigEndian>, `as uN`)
NatToBytes(n, w) ==
    IF w = 0 THEN <<>> ELSE Append(NatToBytes(n \div 256, w - 1), n % 256)

RECURSIVE BytesToNat(_)
\* the number a big-endian byte sequence denotes (byteorder's read_uN::<BigEndian>)
BytesToNat(b) ==
    IF b = <<>> THEN 0
    ELSE BytesToNat(SubSeq(b, 1, Len(b) - 1)) * 256 + b[Len(b)]

\* `x as u64` of a narrower unsigned x: zero extension
Widen(b, w) == [i \in 1..w |-> IF i <= w - Len(b) THEN 0 ELSE b[i - (w - Len(b))]]

\* `x as u32` of a wider x: the low-order bytes
Narrow(b, w) == SubSeq(b, Len(b) - w + 1, Len(b))

\* `x as u8`: the low-order byte, as a number
AsU8(b) == b[Len(b)]

\* byte j of x counted from the most significant, 0 outside the width
ByteAt(x, j) == IF j < 1 \/ j > Len(x) THEN 0 ELSE x[j]

\* x << k on the width of x: the bits shifted out are lost
Shl(x, k) ==
    [i \in 1..Len(x) |->
        ((ByteAt(x, i + (k \div 8)) * (2 ^ (k % 8))) % 256)
            + (ByteAt(x, i + (k \div 8) + 1) \div (2 ^ (8 - (k % 8))))]

\* x >> k on the width of x
Shr(x, k) ==
    [i \in 1..Len(x) |->
        (ByteAt(x, i - (k \div 8)) \div (2 ^ (k % 8)))
            + ((ByteAt(x, i - (k \div 8) - 1) * (2 ^ (8 - (k % 8)))) % 256)]

RECURSIVE OrBits(_, _)
\* a | b on two numbers
OrBits(a, b) ==
    IF a = 0 THEN b
    ELSE IF b = 0 THEN a
    ELSE 2 * OrBits(a \div 2, b \div 2) + (IF a % 2 = 1 \/ b % 2 = 1 THEN 1 ELSE 0)

RECURSIVE AndBits(_, _)
\* a & b on two numbers
AndBits(a, b) ==
    IF a = 0 \/ b = 0 THEN 0
    ELSE 2 * AndBits(a \div 2, b \div 2) + (IF a % 2 = 1 /\ b % 2 = 1 THEN 1 ELSE 0)

\* x | y, byte by byte
BitOr(x, y) == [i \in 1..Len(x) |-> OrBits(x[i], y[i])]

\* x & y, byte by byte
BitAnd(x, y) == [i \in 1..Len(x) |-> AndBits(x[i], y[i])]

RECURSIVE Flatten(_, _, _)
\* the concatenation of chunks[lo], ..., chunks[hi]
Flatten(chunks, lo, hi) ==
    IF lo > hi THEN <<>>
    ELSE IF lo = hi THEN chunks[lo]
    ELSE Flatten(chunks, lo, (lo + hi) \div 2) \o Flatten(chunks, ((lo + hi) \div 2) + 1, hi)

RECURSIVE AddCarry(_, _, _)
\* a + b + c on the width of a, with the carry out of the top byte
AddCarry(a, b, c) ==
    IF a = <<>> THEN [v |-> <<>>, carry |-> c]
    ELSE LET n == Len(a)
             s == a[n] + b[n] + c
             hi == AddCarry(SubSeq(a, 1, n - 1), SubSeq(b, 1, n - 1), s \div 256)
         IN  [v |-> Append(hi.v, s % 256), carry |-> hi.carry]

RECURSIVE SubBorrow(_, _, _)
\* a - b - c on the width of a, with the borrow out of the top byte
SubBorrow(a, b, c) ==
    IF a = <<>> THEN [v |-> <<>>, carry |-> c]
    ELSE LET n == Len(a)
             s == a[n] - b[n] - c
             hi == SubBorrow(SubSeq(a, 1, n - 1), SubSeq(b, 1, n - 1), IF s < 0 THEN 1 ELSE 0)
         IN  [v |-> Append(hi.v, (s + 256) % 256), carry |-> hi.carry]

\* the u32 and u64 literals of the code
U32(b1, b2, b3, b4) == <<b1, b2, b3, b4>>
Zero32 == U32(0, 0, 0, 0)
Zero64 == Widen(Zero32, 8)
One64 == Widen(U32(0, 0, 0, 1), 8)

(***************************************************************************)
(* Box model.                                                              *)
(***************************************************************************)
\* mp4box/mod.rs
HEADER_SIZE == 8
HEADER_EXT_SIZE == 4

SidxReference(rt, size, dur, sap, st, delta) ==
    [reference_type |-> rt, referenced_size |-> size, subsegment_duration |-> dur,
     starts_with_sap |-> sap, sap_type |-> st, sap_delta_time |-> delta]

SidxBox(v, f, id, ts, ept, fo, refs) ==
    [version |-> v, flags |-> f, reference_id |-> id, timescale |-> ts,
     earliest_presentation_time |-> ept, first_offset |-> fo, references |-> refs]

\* SidxBox::box_size
box_size(self) ==
    HEADER_SIZE + HEADER_EXT_SIZE
        + 12
        + (IF self.version = 0 THEN 8 ELSE 16)
        + 4
        + Len(self.references) * 12

(***************************************************************************)
(* Binary codec.                                                           *)
(***************************************************************************)
\* BoxHeader::new(BoxType::SidxBox, size).write: 32-bit size, then "sidx"
BoxHeaderWrite(size) == NatToBytes(size, 4) \o <<115, 105, 100, 120>>

\* write_box_header_ext: version byte, 24-bit flags
write_box_header_ext(version, flags) == <<version>> \o NatToBytes(flags, 3)

\* read_box_header_ext: version byte, 24-bit flags
read_box_header_ext(r) == [version |-> r[1], flags |-> BytesToNat(SubSeq(r, 2, 4))]

\* the three words write_box writes for one reference
WriteReference(reference) ==
    LET first_byte == BitOr(Shl(Widen(<<reference.reference_type>>, 4), 31),
                            reference.referenced_size)
        sap_bits == IF reference.starts_with_sap
                    THEN BitOr(BitOr(U32(128, 0, 0, 0),
                                     Shl(Widen(<<reference.sap_type>>, 4), 28)),
                               reference.sap_delta_time)
                    ELSE reference.sap_delta_time
    IN  first_byte \o reference.subsegment_duration \o sap_bits

\* SidxBox::write_box: the value returned and the writes made to the writer,
\* as one chunk for the headers and the fixed fields followed by one chunk per
\* iteration of the loop over the references
write_box(self) ==
    LET size == box_size(self)
        n == Len(self.references)
        entries == [i \in 1..n |-> WriteReference(self.references[i])]
    IN  [ok |-> TRUE,
         ret |-> size,
         writes |-> <<
            BoxHeaderWrite(size)
            \o write_box_header_ext(self.version, self.flags)
            \o self.reference_id
            \o self.timescale
            \o (IF self.version = 0
                THEN Narrow(self.earliest_presentation_time, 4) \o Narrow(self.first_offset, 4)
                ELSE self.earliest_presentation_time \o self.first_offset)
            \o NatToBytes(0, 2)
            \o NatToBytes(n, 2)
            >> \o entries]

\* the bytes a sequence of writes leaves in the writer
Written(writes) == Flatten(writes, 1, Len(writes))

\* one reference unpacked from its three words
ReadReference(w) ==
    LET first_byte == SubSeq(w, 1, 4)
        third_dword == SubSeq(w, 9, 12)
    IN  SidxReference(
            AsU8(BitAnd(Shr(first_byte, 31), U32(0, 0, 0, 1))),
            BitAnd(first_byte, U32(127, 255, 255, 255)),
            SubSeq(w, 5, 8),
            BitAnd(Shr(third_dword, 31), U32(0, 0, 0, 1)) = U32(0, 0, 0, 1),
            AsU8(BitAnd(Shr(third_dword, 28), U32(0, 0, 0, 7))),
            BitAnd(third_dword, U32(15, 255, 255, 255)))

ReadErr == [ok |-> FALSE, err |-> "UnexpectedEof"]

\* SidxBox::read_box on a reader holding the bytes r; every read that runs
\* past the end of r fails the call
read_box(r) ==
    IF Len(r) < 4 THEN ReadErr ELSE
    LET version == read_box_header_ext(r).version
        flags == read_box_header_ext(r).flags
        w == IF version = 0 THEN 4 ELSE 8
    IN
    IF Len(r) < 12 + 2 * w + 4 THEN ReadErr ELSE
    LET reference_id == SubSeq(r, 5, 8)
        timescale == SubSeq(r, 9, 12)
        earliest_presentation_time == Widen(SubSeq(r, 13, 12 + w), 8)
        first_offset == Widen(SubSeq(r, 13 + w, 12 + 2 * w), 8)
        reference_count == BytesToNat(SubSeq(r, 15 + 2 * w, 16 + 2 * w))
        at == 16 + 2 * w
    IN
    IF Len(r) < at + 12 * reference_count THEN ReadErr ELSE
    [ok |-> TRUE,
     box |-> SidxBox(version, flags, reference_id, timescale,
                     earliest_presentation_time, first_offset,
                     [i \in 1..reference_count |->
                         ReadReference(SubSeq(r, at + 12 * (i - 1) + 1, at + 12 * i))])]

(***************************************************************************)
(* f64.  A value is NaN, +infinity, or a non-negative rational n/d in      *)
(* lowest terms.  The boxes explored below carry timescales, presentation  *)
(* times and durations below 2^31 whose quotients and sums are short       *)
(* binary fractions, so the cast is exact, IEEE-754 division and addition  *)
(* round nothing, and the rational is the f64.                             *)
(***************************************************************************)
RECURSIVE GCD(_, _)
GCD(a, b) == IF b = 0 THEN a ELSE GCD(b, a % b)

NaN == [k |-> "nan"]
Inf == [k |-> "inf"]
Fin(n, d) == [k |-> "fin", n |-> n \div GCD(n, d), d |-> d \div GCD(n, d)]

\* `x as f64` of an unsigned integer
AsF64(b) == Fin(BytesToNat(b), 1)

\* a / b
F64Div(a, b) ==
    IF a.k = "nan" \/ b.k = "nan" THEN NaN
    ELSE IF a.k = "inf" THEN (IF b.k = "inf" THEN NaN ELSE Inf)
    ELSE IF b.k = "inf" THEN Fin(0, 1)
    ELSE IF b.n = 0 THEN (IF a.n = 0 THEN NaN ELSE Inf)
    ELSE Fin(a.n * b.d, a.d * b.n)

\* a + b
F64Add(a, b) ==
    IF a.k = "nan" \/ b.k = "nan" THEN NaN
    ELSE IF a.k = "inf" \/ b.k = "inf" THEN Inf
    ELSE Fin(a.n * b.d + b.n * a.d, a.d * b.d)

\* a < b: false when either side is NaN
F64Lt(a, b) ==
    /\ a.k # "nan" /\ b.k # "nan"
    /\ a.k = "fin"
    /\ (b.k = "inf" \/ a.n * b.d < b.n * a.d)

\* a >= b: false when either side is NaN
F64Ge(a, b) ==
    /\ a.k # "nan" /\ b.k # "nan"
    /\ (a.k = "inf" \/ (b.k = "fin" /\ a.n * b.d >= b.n * a.d))

(***************************************************************************)
(* Segment geometry.  A u64 addition or subtraction that leaves the range  *)
(* panics when the build checks overflow (overflow_checks, the debug       *)
(* profile) and wraps when it does not (the release profile).              *)
(***************************************************************************)
Panicked == [ok |-> FALSE, panic |-> "arithmetic overflow"]

SeekSegment(t, d, off, size) ==
    [time_seconds |-> t, duration_seconds |-> d, byte_offset |-> off, byte_size |-> size]

DashSegment(t, d, start, end, sap, st) ==
    [start_time_seconds |-> t, duration_seconds |-> d, byte_range_start |-> start,
     byte_range_end |-> end, contains_sap |-> sap, sap_type |-> st]

\* base_offset = sidx_box_offset + sidx_box_size + sidx.first_offset
BaseOffset(self, sidx_box_offset, sidx_box_size) ==
    LET a == AddCarry(sidx_box_offset, sidx_box_size, 0)
        b == AddCarry(a.v, self.first_offset, 0)
    IN  [v |-> b.v, carry |-> IF a.carry = 1 \/ b.carry = 1 THEN 1 ELSE 0]

RECURSIVE SeekLoop(_, _, _, _, _, _)
\* the `for reference in &sidx.references` of sidx_to_seek_segments, from reference i on
SeekLoop(self, i, current_time, current_offset, segments, overflow_checks) ==
    IF i > Len(self.references) THEN [ok |-> TRUE, segments |-> segments]
    ELSE LET reference == self.references[i]
             duration_seconds ==
                 F64Div(AsF64(reference.subsegment_duration), AsF64(self.timescale))
             next == AddCarry(current_offset, Widen(reference.referenced_size, 8), 0)
         IN  IF overflow_checks /\ next.carry = 1 THEN Panicked
             ELSE SeekLoop(self, i + 1, F64Add(current_time, duration_seconds), next.v,
                           Append(segments,
                                  SeekSegment(current_time, duration_seconds, current_offset,
                                              reference.referenced_size)),
                           overflow_checks)

\* sidx_to_seek_segments
sidx_to_seek_segments(self, sidx_box_offset, sidx_box_size, overflow_checks) ==
    LET base_offset == BaseOffset(self, sidx_box_offset, sidx_box_size)
    IN  IF overflow_checks /\ base_offset.carry = 1 THEN Panicked
        ELSE SeekLoop(self, 1,
                      F64Div(AsF64(self.earliest_presentation_time), AsF64(self.timescale)),
                      base_offset.v, <<>>, overflow_checks)

RECURSIVE DashLoop(_, _, _, _, _, _)
\* the `for reference in &sidx.references` of parse_dash_sidx, from reference i on
DashLoop(self, i, current_time, current_offset, segments, overflow_checks) ==
    IF i > Len(self.references) THEN [ok |-> TRUE, segments |-> segments]
    ELSE LET reference == self.references[i]
             duration_seconds ==
                 F64Div(AsF64(reference.subsegment_duration), AsF64(self.timescale))
             next == AddCarry(current_offset, Widen(reference.referenced_size, 8), 0)
             end == SubBorrow(next.v, One64, 0)
         IN  IF overflow_checks /\ (next.carry = 1 \/ end.carry = 1) THEN Panicked
             ELSE DashLoop(self, i + 1, F64Add(current_time, duration_seconds), next.v,
                           Append(segments,
                                  DashSegment(current_time, duration_seconds, current_offset,
                                              end.v, reference.starts_with_sap,
                                              reference.sap_type)),
                           overflow_checks)

\* parse_dash_sidx
parse_dash_sidx(self, sidx_box_offset, sidx_box_size, overflow_checks) ==
    LET base_offset == BaseOffset(self, sidx_box_offset, sidx_box_size)
    IN  IF overflow_checks /\ base_offset.carry = 1 THEN Panicked
        ELSE DashLoop(self, 1,
                      F64Div(AsF64(self.earliest_presentation_time), AsF64(self.timescale)),
                      base_offset.v, <<>>, overflow_checks)

\* the closure with a closed interval: time_seconds <= start + duration
MatchesClosed(segment, time_seconds) ==
    /\ F64Ge(time_seconds, segment.start_time_seconds)
    /\ F64Ge(F64Add(segment.start_time_seconds, segment.duration_seconds), time_seconds)

\* the predicate of find_segment_for_time's closure
Matches(segment, time_seconds) ==
    /\ F64Ge(time_seconds, segment.start_time_seconds)
    /\ F64Lt(time_seconds, F64Add(segment.start_time_seconds, segment.duration_seconds))

\* Option<&DashSegment>: the position of the segment referred to, or NoSegment
NoSegment == 0

RECURSIVE FindFrom(_, _, _)
\* segments.iter().find(..) from position i on
FindFrom(segments, i, time_seconds) ==
    IF i > Len(segments) THEN NoSegment
    ELSE IF Matches(segments[i], time_seconds) THEN i
    ELSE FindFrom(segments, i + 1, time_seconds)

\* find_segment_for_time
find_segment_for_time(segments, time_seconds) == FindFrom(segments, 1, time_seconds)

(***************************************************************************)
(* The values the caller supplies.                                         *)
(***************************************************************************)
U32Of(n) == NatToBytes(n, 4)
U64Max == [i \in 1..8 |-> 255]

\* the reference of the concrete scenario: 2000 bytes, 2000 ticks, SAP of type 1
RefScenario == SidxReference(0, U32Of(2000), U32Of(2000), TRUE, 1, Zero32)
\* every field at its largest legal value, pointing to another index box
RefMax ==
    SidxReference(1, U32(127, 255, 255, 255), U32Of(4000), TRUE, 7, U32(15, 255, 255, 255))
\* an empty, zero-duration reference
RefEmpty == SidxReference(0, Zero32, Zero32, FALSE, 0, Zero32)
\* a SAP type recorded on a reference that does not start with a SAP
RefNoSap == SidxReference(0, U32Of(1000), U32Of(2000), FALSE, 3, U32Of(5))
\* fields beyond their bit budget: size 2^31 + 5, sap_type 8, sap_delta_time 2^28
RefOver == SidxReference(0, U32(128, 0, 0, 5), U32Of(1000), TRUE, 8, U32(16, 0, 0, 0))

Refs == {RefScenario, RefMax, RefEmpty, RefNoSap, RefOver}

RefLists == UNION {[1..n -> Refs] : n \in 0..MaxRefs}

Versions == {0, 1}
Timescales == {Zero32, U32Of(1000)}
PresentationTimes == {Zero64, Widen(U32Of(500), 8)}
\* 0 and 2^32 + 16, which only a version 1 box can carry
FirstOffsets == {Zero64, <<0, 0, 0, 1, 0, 0, 0, 16>>}

Boxes ==
    {SidxBox(v, 1, U32(1, 2, 3, 4), ts, ept, fo, refs) :
        v \in Versions, ts \in Timescales, ept \in PresentationTimes,
        fo \in FirstOffsets, refs \in RefLists}

\* a box with one reference more than the 16-bit reference_count can state
BoxTooManyRefs ==
    SidxBox(0, 1, U32(1, 2, 3, 4), U32Of(1000), Zero64, Zero64,
            [i \in 1..65536 |-> RefScenario])

\* reference entries as they come off the wire
WordsScenario == U32Of(2000) \o U32Of(2000) \o U32(144, 0, 0, 0)
\* every bit of the two packed words set
WordsAllOnes == U32(255, 255, 255, 255) \o U32Of(4000) \o U32(255, 255, 255, 255)
\* SAP flag 0, sap_type bits 3, delta 5
WordsNoSap == U32Of(1000) \o U32Of(2000) \o U32(48, 0, 0, 5)

Words == {WordsScenario, WordsAllOnes, WordsNoSap}

WordLists == UNION {[1..n -> Words] : n \in 0..MaxRefs}

ReservedWords == {<<0, 0>>, <<190, 239>>}

\* a sidx payload laid out as the wire format prescribes
Payload(v, ts, reserved, entries) ==
    <<v, 0, 0, 1>> \o U32(1, 2, 3, 4) \o ts
        \o (IF v = 0 THEN U32Of(500) \o U32Of(16)
            ELSE Widen(U32Of(500), 8) \o Widen(U32Of(16), 8))
        \o reserved \o NatToBytes(Len(entries), 2)
        \o Flatten(entries, 1, Len(entries))

WholePayloads ==
    {Payload(v, ts, reserved, entries) :
        v \in Versions, ts \in Timescales, reserved \in ReservedWords, entries \in WordLists}

\* payloads that end one byte early
CutPayloads == {SubSeq(p, 1, Len(p) - 1) : p \in WholePayloads}

Payloads == WholePayloads \cup CutPayloads

\* (sidx_box_offset, sidx_box_size): the start of the file, the concrete
\* scenario, and the last byte a u64 can address
BoxPlacements ==
    {<<Zero64, Zero64>>,
     <<Widen(U32Of(100), 8), Widen(U32Of(50), 8)>>,
     <<U64Max, Widen(U32Of(50), 8)>>}

\* time_seconds in seconds: 0, 1/2, 2, 5/2, 4, 9
Times == {Fin(0, 1), Fin(1, 2), Fin(2, 1), Fin(5, 2), Fin(4, 1), Fin(9, 1)}

(***************************************************************************)
(* The state machine: a caller that encodes a box it built and reads it    *)
(* back, or decodes a payload and encodes the box again, or derives the    *)
(* segment tables of the box in hand and looks a time up in them.          *)
(***************************************************************************)
Start(o, box, payload) ==
    /\ origin = o
    /\ pc = o
    /\ sidx = box
    /\ input = payload
    /\ result = None
    /\ output = None
    /\ ret = None
    /\ args = None
    /\ seek = None
    /\ dash = None
    /\ time = None
    /\ found = None

Init ==
    \/ \E box \in Boxes : Start("value", box, None)
    \/ \E payload \in Payloads : Start("bytes", NoBox, payload)

InitOverflow ==
    \/ Init
    \/ Start("value", BoxTooManyRefs, None)

\* the box in hand: the one the caller built, or the one read_box returned
Cur == IF origin = "value" THEN sidx ELSE result.box

\* sidx.write_box(&mut writer)
WriteBox ==
    /\ pc \in {"value", "decoded"}
    /\ LET w == write_box(Cur)
       IN  /\ output' = w.writes
           /\ ret' = [ok |-> w.ok, size |-> w.ret]
    /\ pc' = IF pc = "value" THEN "written" ELSE "rewritten"
    /\ UNCHANGED <<origin, sidx, input, result, args, seek, dash, time, found>>

\* SidxBox::read_box(&mut reader, size), the reader standing after the generic
\* box header: on the payload the caller holds, or on the bytes just written
ReadBox ==
    /\ pc \in {"bytes", "written"}
    /\ LET r == IF pc = "bytes" THEN input
                ELSE SubSeq(Written(output), HEADER_SIZE + 1, Len(Written(output)))
           got == read_box(r)
       IN  /\ input' = r
           /\ result' = got
           /\ pc' = IF ~got.ok THEN "failed"
                    ELSE IF pc = "bytes" THEN "decoded" ELSE "reread"
    /\ UNCHANGED <<origin, sidx, output, ret, args, seek, dash, time, found>>

\* sidx_to_seek_segments(&sidx, sidx_box_offset, sidx_box_size)
SidxToSeekSegments ==
    /\ pc \in {"value", "decoded"}
    /\ Len(Cur.references) <= MaxRefs
    /\ \E placement \in BoxPlacements, overflow_checks \in BOOLEAN :
        /\ args' = placement
        /\ seek' = sidx_to_seek_segments(Cur, placement[1], placement[2], overflow_checks)
    /\ pc' = "seek"
    /\ UNCHANGED <<origin, sidx, input, result, output, ret, dash, time, found>>

\* parse_dash_sidx(&sidx, sidx_box_offset, sidx_box_size)
ParseDashSidx ==
    /\ pc \in {"value", "decoded"}
    /\ Len(Cur.references) <= MaxRefs
    /\ \E placement \in BoxPlacements, overflow_checks \in BOOLEAN :
        /\ args' = placement
        /\ dash' = parse_dash_sidx(Cur, placement[1], placement[2], overflow_checks)
    /\ pc' = "dash"
    /\ UNCHANGED <<origin, sidx, input, result, output, ret, seek, time, found>>

\* find_segment_for_time(&segments, time_seconds)
FindSegmentForTime ==
    /\ pc = "dash"
    /\ dash.ok
    /\ \E t \in Times :
        /\ time' = t
        /\ found' = find_segment_for_time(dash.segments, t)
    /\ pc' = "found"
    /\ UNCHANGED <<origin, sidx, input, result, output, ret, args, seek, dash>>

Next ==
    \/ WriteBox
    \/ ReadBox
    \/ SidxToSeekSegments
    \/ ParseDashSidx
    \/ FindSegmentForTime

Spec == Init /\ [][Next]_vars

SpecOverflow == InitOverflow /\ [][Next]_vars

(***************************************************************************)
(* Vocabulary of the properties.                                           *)
(***************************************************************************)
\* the data-model invariants of a SidxBox
SatisfiesInvariants(box) ==
    /\ box.version \in {0, 1}
    /\ box.timescale # Zero32
    /\ Len(box.references) <= 65535
    /\ \A i \in 1..Len(box.references) :
        LET reference == box.references[i]
        IN  /\ reference.reference_type \in {0, 1}
            /\ reference.referenced_size[1] < 128
            /\ reference.sap_type <= 7
            /\ reference.sap_delta_time[1] < 16

\* a reference with a field beyond its bit budget
OverBudget(reference) ==
    \/ reference.referenced_size[1] >= 128
    \/ reference.sap_type > 7
    \/ reference.sap_delta_time[1] >= 16

\* a complete payload: every field present, nonzero timescale, and exactly
\* the reference_count entries it declares
WellFormed(b) ==
    /\ Len(b) >= 24
    /\ LET w == IF b[1] = 0 THEN 4 ELSE 8
       IN  /\ Len(b) >= 16 + 2 * w
           /\ SubSeq(b, 9, 12) # Zero32
           /\ Len(b) = 16 + 2 * w + 12 * BytesToNat(SubSeq(b, 15 + 2 * w, 16 + 2 * w))

\* the bytes write_box wrote after the generic box header
WrittenPayload == SubSeq(Written(output), HEADER_SIZE + 1, Len(Written(output)))

RECURSIVE ExactStart(_, _, _)
\* sidx_box_offset + sidx_box_size + first_offset + the sizes of references
\* 1..i-1, as a number: carry = 1 when it does not fit in 64 bits
ExactStart(box, placement, i) ==
    IF i = 1 THEN BaseOffset(box, placement[1], placement[2])
    ELSE LET before == ExactStart(box, placement, i - 1)
             sum == AddCarry(before.v, Widen(box.references[i - 1].referenced_size, 8), 0)
         IN  [v |-> sum.v, carry |-> IF before.carry = 1 \/ sum.carry = 1 THEN 1 ELSE 0]

\* start + size - 1 as a number: carry = 1 when it is below 0 or beyond 64 bits
ExactEnd(start, size) ==
    IF size = Zero32 THEN SubBorrow(start, One64, 0)
    ELSE AddCarry(start, Widen(SubBorrow(size, U32(0, 0, 0, 1), 0).v, 8), 0)

\* a == b on f64: false when either side is NaN
F64Eq(a, b) == a.k # "nan" /\ b.k # "nan" /\ a = b

\* T lies in the half-open interval [start, start + duration) of a segment
Contains(segment, t) ==
    /\ F64Ge(t, segment.start_time_seconds)
    /\ ~F64Ge(t, F64Add(segment.start_time_seconds, segment.duration_seconds))
    /\ F64Add(segment.start_time_seconds, segment.duration_seconds).k # "nan"

SegmentEnd(segment) == F64Add(segment.start_time_seconds, segment.duration_seconds)

(***************************************************************************)
(* Properties.                                                             *)
(***************************************************************************)
\* C1: value round trip.  A box that satisfies the data-model invariants,
\* written by write_box and read back by read_box, comes back equal to itself
\* in every field of the box and of every reference.
C1_ValueRoundTrip ==
    (pc = "reread" /\ SatisfiesInvariants(sidx)) => (result.ok /\ result.box = sidx)

\* C2: byte round trip.  A well-formed payload decoded by read_box and encoded
\* again by write_box yields, after the generic box header, the same bytes.
C2_ByteRoundTrip ==
    (pc = "rewritten" /\ WellFormed(input)) => WrittenPayload = input

\* C3: size consistency.  box_size() is the number of bytes write_box writes,
\* and write_box returns and records in the header that same number.
C3_SizeConsistency ==
    pc \in {"written", "rewritten"} =>
        /\ box_size(Cur) = Len(Written(output))
        /\ ret.size = Len(Written(output))
        /\ BytesToNat(SubSeq(Written(output), 1, 4)) = Len(Written(output))

\* C4: read_box fails on every payload whose timescale field is 0, so every
\* box it returns has a nonzero timescale.
C4_RejectZeroTimescale ==
    pc \in {"decoded", "failed", "reread"} =>
        /\ (Len(input) >= 12 /\ SubSeq(input, 9, 12) = Zero32) => ~result.ok
        /\ result.ok => result.box.timescale # Zero32

\* C5: write_box fails on a box with more than 65535 references.
C5_RejectCountOverflow ==
    (pc = "written" /\ Len(sidx.references) > 65535) => ~ret.ok

\* C6: write_box fails on a box holding a reference whose referenced_size,
\* sap_type or sap_delta_time exceeds its bit budget.
C6_RejectOverBudget ==
    (pc \in {"written", "rewritten"}
        /\ \E i \in 1..Len(Cur.references) : OverBudget(Cur.references[i]))
    => ~ret.ok

\* C7: byte geometry.  Both derivations return one segment per reference, in
\* order; segment i starts at sidx_box_offset + sidx_box_size + first_offset +
\* the sizes of the references before it; the seek segment has the reference's
\* size, the DASH segment ends at start + size - 1 and carries the reference's
\* starts_with_sap and sap_type.
C7_ByteGeometry ==
    /\ pc = "seek" =>
        /\ seek.ok
        /\ Len(seek.segments) = Len(Cur.references)
        /\ \A i \in 1..Len(Cur.references) :
            /\ ExactStart(Cur, args, i).carry = 0
            /\ seek.segments[i].byte_offset = ExactStart(Cur, args, i).v
            /\ seek.segments[i].byte_size = Cur.references[i].referenced_size
    /\ pc = "dash" =>
        /\ dash.ok
        /\ Len(dash.segments) = Len(Cur.references)
        /\ \A i \in 1..Len(Cur.references) :
            LET segment == dash.segments[i]
                reference == Cur.references[i]
                end == ExactEnd(segment.byte_range_start, reference.referenced_size)
            IN  /\ ExactStart(Cur, args, i).carry = 0
                /\ segment.byte_range_start = ExactStart(Cur, args, i).v
                /\ end.carry = 0
                /\ segment.byte_range_end = end.v
                /\ segment.contains_sap = reference.starts_with_sap
                /\ segment.sap_type = reference.sap_type

\* C8: contiguity.  In a derived sequence each segment starts at the time its
\* predecessor starts plus the predecessor's duration, and at the byte after the
\* predecessor's last byte; a box without references derives the empty sequence.
C8_Contiguity ==
    /\ pc = "seek" =>
        /\ Len(Cur.references) = 0 => (seek.ok /\ seek.segments = <<>>)
        /\ seek.ok => \A i \in 1..(Len(seek.segments) - 1) :
            LET a == seek.segments[i]
                b == seek.segments[i + 1]
                after == AddCarry(a.byte_offset, Widen(a.byte_size, 8), 0)
            IN  /\ F64Eq(b.time_seconds, F64Add(a.time_seconds, a.duration_seconds))
                /\ after.carry = 0
                /\ b.byte_offset = after.v
    /\ pc = "dash" =>
        /\ Len(Cur.references) = 0 => (dash.ok /\ dash.segments = <<>>)
        /\ dash.ok => \A i \in 1..(Len(dash.segments) - 1) :
            LET a == dash.segments[i]
                b == dash.segments[i + 1]
                after == AddCarry(a.byte_range_end, One64, 0)
            IN  /\ F64Eq(b.start_time_seconds, SegmentEnd(a))
                /\ after.carry = 0
                /\ b.byte_range_start = after.v

\* C9: time lookup.  find_segment_for_time returns the first segment, in
\* sequence order, whose half-open interval [start, start + duration) contains
\* T, and none when no interval does; none when T is before the first start or
\* at or after the last end; on a boundary shared by two consecutive segments it
\* returns the later one when that one has a positive duration; it never
\* returns a zero-duration segment.
C9_TimeLookup ==
    pc = "found" =>
        LET segments == dash.segments
            n == Len(segments)
        IN  /\ found # NoSegment =>
                /\ found \in 1..n
                /\ Contains(segments[found], time)
                /\ \A j \in 1..(found - 1) : ~Contains(segments[j], time)
                /\ segments[found].duration_seconds # Fin(0, 1)
            /\ found = NoSegment => \A j \in 1..n : ~Contains(segments[j], time)
            /\ (n > 0 /\ F64Lt(time, segments[1].start_time_seconds)) => found = NoSegment
            /\ (n > 0 /\ F64Ge(time, SegmentEnd(segments[n]))) => found = NoSegment
            /\ \A i \in 1..(n - 1) :
                (/\ F64Eq(time, SegmentEnd(segments[i]))
                 /\ F64Eq(time, segments[i + 1].start_time_seconds)
                 /\ F64Lt(Fin(0, 1), segments[i + 1].duration_seconds))
                => found = i + 1

\* C9 witness: a lookup on the boundary shared by the first two segments
\* returned the second one.
C9_Witness ==
    /\ pc = "found"
    /\ Len(dash.segments) >= 2
    /\ F64Eq(time, SegmentEnd(dash.segments[1]))
    /\ F64Lt(Fin(0, 1), dash.segments[1].duration_seconds)
    /\ found = 2

\* C10: the derivations of a box read_box returned complete, and none of their
\* u64 computations leaves the range: not the base offset, not the running
\* offset, not the inclusive end of a byte range.
C10_NoFailureMode ==
    /\ (pc = "seek" /\ origin = "bytes") =>
        /\ seek.ok
        /\ \A i \in 1..(Len(Cur.references) + 1) : ExactStart(Cur, args, i).carry = 0
    /\ (pc = "dash" /\ origin = "bytes") =>
        /\ dash.ok
        /\ \A i \in 1..(Len(Cur.references) + 1) : ExactStart(Cur, args, i).carry = 0
        /\ \A i \in 1..Len(Cur.references) :
            LET sum == AddCarry(ExactStart(Cur, args, i).v,
                                Widen(Cur.references[i].referenced_size, 8), 0)
            IN  SubBorrow(sum.v, One64, 0).carry = 0

====
